---- MODULE Spec2Model ----
(***************************************************************************)
(* Grid path planning: depth_first_search, breadth_first_search and        *)
(* a_star_search of src/graph_search.py, run against a Grid that supplies  *)
(* find_neighbors and holds the parent map and the visited-cell log.       *)
(*                                                                         *)
(* A cell is the pair <<i, j>>.  One step of the model is the entry of a   *)
(* strategy (reset and seeding), one iteration of its while loop (pop,     *)
(* goal test, the whole neighbor loop) or its return on an empty frontier. *)
(* Search-local variables are indexed by the invocation (Procs) and the    *)
(* Grid's fields by the Grid instance (Grids), so that two invocations may *)
(* share a Grid or own one each.                                           *)
(***************************************************************************)
EXTENDS Integers, Sequences, FiniteSets, TLC

\* ------------------------------------------------------------------ bounds
\* The box the general specification draws its layouts from.
Rows == 3
Cols == 3
\* The wider box, of which only sparsely obstructed layouts are drawn.
WideRows == 3
WideCols == 5
MaxObstacles == 2
\* The layouts of the wider box with few free cells: at most MaxFree of them.
MaxFree == 6
\* The box of the layouts on which searches are repeated.
RerunRows == 2
RerunCols == 3
\* The box of the layouts on which two invocations are interleaved.
PairRows == 2
PairCols == 2

Procs == {1, 2}
Grids == {1, 2}
Strategies == {"dfs", "bfs", "astar"}

\* Python's None, as stored for the start cell in graph.parent.
None == <<>>

Range(s) == {s[n] : n \in 1..Len(s)}
Box(r, c) == (0..(r - 1)) \X (0..(c - 1))

\* ------------------------------------------------------- the Grid's side
\* Enumeration orders of the Grid's neighbor function: offsets (di, dj).
Compass4 == << <<-1, 0>>, <<1, 0>>, <<0, -1>>, <<0, 1>> >>
Compass4Rev == << <<0, 1>>, <<0, -1>>, <<1, 0>>, <<-1, 0>> >>
Compass8 == Compass4 \o << <<-1, -1>>, <<-1, 1>>, <<1, -1>>, <<1, 1>> >>
NeighborOrders == {Compass4, Compass4Rev, Compass8}

VARIABLES
    free,           \* the Grid's layout: the set of cells that are not obstacles
    dirs,           \* the Grid's neighbor enumeration order (fixed per Grid)
    parent,         \* parent[k]: graph.parent of Grid k, key (i, j) -> Cell or None
    visited_cells,  \* visited_cells[k]: graph.visited_cells of Grid k
    pc,             \* pc[p]: "idle", "loop", "done", "error" or "hang"
    alg,            \* alg[p]: the strategy invocation p runs
    graph,          \* graph[p]: the Grid instance passed to invocation p
    start,          \* start[p], goal[p]: the arguments of invocation p
    goal,
    stack,          \* stack[p]: DFS frontier
    queue,          \* queue[p]: BFS frontier
    visited,        \* visited[p]: DFS/BFS discovered set
    open_heap,      \* open_heap[p]: A* frontier, entries <<f, g, counter, cell>>
    g_cost,         \* g_cost[p]: A* cost map, key -> g
    counter,        \* counter[p]: A* insertion counter
    closed,         \* closed[p]: A* closed set
    result,         \* result[p]: the returned path once pc[p] = "done"
    prev            \* history: what the previous invocation on the Grid left

gridVars == <<free, dirs>>
sharedVars == <<parent, visited_cells>>
argVars == <<alg, graph, start, goal>>
vars == <<free, dirs, parent, visited_cells, pc, alg, graph, start, goal, stack,
          queue, visited, open_heap, g_cost, counter, closed, result, prev>>

Upd(f, p, v) == [f EXCEPT ![p] = v]

\* F(v), with v evaluated once and bound as a value.
WithValue(v, F(_)) == CHOOSE r \in {F(x) : x \in {v}} : TRUE

\* d[k] = v on a Python dict d.
SetItem(d, k, v) == [x \in (DOMAIN d) \cup {k} |-> IF x = k THEN v ELSE d[x]]

EmptyDict == [x \in {} |-> None]

\* graph.find_neighbors(i, j): the free cells next to c, in the Grid's order.
find_neighbors(fr, ds, c) ==
    SelectSeq([n \in 1..Len(ds) |-> <<c[1] + ds[n][1], c[2] + ds[n][2]>>],
              LAMBDA x : x \in fr)

\* graph.init_graph() on the Grid fields gr: clears the per-search state.
init_graph(gr) == [gr EXCEPT !.parent = EmptyDict, !.visited_cells = <<>>]

\* The per-search fields of Grid k.
GridFields(k) == [parent |-> parent[k], visited_cells |-> visited_cells[k]]

\* trace_path(cell, graph) walks graph.parent from cell until None: it returns
\* ("done"), raises on a key without an entry ("error"), or never ends on a
\* cyclic map ("hang").  fuel is the number of keys, which no acyclic chain exceeds.
RECURSIVE TraceOutcome(_, _, _)
TraceOutcome(cell, par, fuel) ==
    WithValue(cell, LAMBDA c :
        IF c = None THEN "done"
        ELSE IF c \notin DOMAIN par THEN "error"
        ELSE IF fuel = 0 THEN "hang"
        ELSE TraceOutcome(par[c], par, fuel - 1))

\* trace_path(cell, graph): the cells from the root of cell's parent chain to cell.
RECURSIVE trace_path(_, _)
trace_path(cell, par) ==
    WithValue(cell, LAMBDA c :
        IF par[c] = None THEN <<c>>
        ELSE Append(trace_path(par[c], par), c))

\* `return trace_path(current, graph)`: the new pc and the returned value.
ReturnPath(cell, par) ==
    LET o == TraceOutcome(cell, par, Cardinality(DOMAIN par))
    IN [pc |-> o, result |-> IF o = "done" THEN trace_path(cell, par) ELSE <<>>]

\* The values a strategy's locals have while p runs another strategy or none.
NoLocals ==
    [stack |-> <<>>, queue |-> <<>>, visited |-> {}, open_heap |-> {},
     g_cost |-> EmptyDict, counter |-> 0, closed |-> {}]

\* The call p makes: a fresh frame with the arguments, the locals and the Grid
\* fields as the strategy's first lines (given as the record st) leave them.
Enter(p, a, k, s, g, st) ==
    /\ pc[p] \in {"idle", "done", "error"}
    /\ alg' = Upd(alg, p, a)
    /\ graph' = Upd(graph, p, k)
    /\ start' = Upd(start, p, s)
    /\ goal' = Upd(goal, p, g)
    /\ pc' = Upd(pc, p, "loop")
    /\ result' = Upd(result, p, <<>>)
    /\ stack' = Upd(stack, p, st.stack)
    /\ queue' = Upd(queue, p, st.queue)
    /\ visited' = Upd(visited, p, st.visited)
    /\ open_heap' = Upd(open_heap, p, st.open_heap)
    /\ g_cost' = Upd(g_cost, p, st.g_cost)
    /\ counter' = Upd(counter, p, st.counter)
    /\ closed' = Upd(closed, p, st.closed)
    /\ parent' = Upd(parent, k, st.parent)
    /\ visited_cells' = Upd(visited_cells, k, st.visited_cells)
    /\ UNCHANGED gridVars

\* The frame of p with one module-level Grid in place of the `graph` argument.
FrameOfGlobalGrid(p) ==
    [stack |-> stack[p], queue |-> queue[p], visited |-> visited[p],
     open_heap |-> open_heap[p], g_cost |-> g_cost[p], counter |-> counter[p],
     closed |-> closed[p], parent |-> parent[1],
     visited_cells |-> visited_cells[1], pc |-> pc[p], result |-> result[p]]

\* The locals and Grid fields invocation p reads and writes, as one record.
Frame(p) ==
    [stack |-> stack[p], queue |-> queue[p], visited |-> visited[p],
     open_heap |-> open_heap[p], g_cost |-> g_cost[p], counter |-> counter[p],
     closed |-> closed[p], parent |-> parent[graph[p]],
     visited_cells |-> visited_cells[graph[p]], pc |-> pc[p], result |-> result[p]]

\* One loop iteration of p, whose effect is the record st.
Iterate(p, st) ==
    /\ pc[p] = "loop"
    /\ pc' = Upd(pc, p, st.pc)
    /\ result' = Upd(result, p, st.result)
    /\ stack' = Upd(stack, p, st.stack)
    /\ queue' = Upd(queue, p, st.queue)
    /\ visited' = Upd(visited, p, st.visited)
    /\ open_heap' = Upd(open_heap, p, st.open_heap)
    /\ g_cost' = Upd(g_cost, p, st.g_cost)
    /\ counter' = Upd(counter, p, st.counter)
    /\ closed' = Upd(closed, p, st.closed)
    /\ parent' = Upd(parent, graph[p], st.parent)
    /\ visited_cells' = Upd(visited_cells, graph[p], st.visited_cells)
    /\ UNCHANGED <<gridVars, argVars, prev>>

\* `return trace_path(current, graph)` in frame st.
ReturnTrace(st, current) ==
    WithValue(st, LAMBDA f :
        LET o == TraceOutcome(current, f.parent, Cardinality(DOMAIN f.parent))
        IN [f EXCEPT !.pc = o,
                     !.result = IF o = "done" THEN trace_path(current, f.parent)
                                ELSE <<>>])

\* `return graph.visited_cells` in place of `return []`.
ReturnVisitedLog(st) == [st EXCEPT !.pc = "done", !.result = st.visited_cells]

\* `return []` after the loop.
ReturnEmpty(st) == [st EXCEPT !.pc = "done", !.result = <<>>]

\* ------------------------------------------------------ depth_first_search
\* Lines 38-44 without the `graph.init_graph()` of line 36.
DfsSeedNoReset(gr, s) ==
    [NoLocals EXCEPT !.stack = <<s>>, !.visited = {s}] @@
    [parent |-> SetItem(gr.parent, s, None),
     visited_cells |-> Append(gr.visited_cells, s)]

\* Lines 36-44 without `visited.add((start.i, start.j))`.
DfsSeedStartUnmarked(gr, s) ==
    LET cleared == init_graph(gr)
    IN [NoLocals EXCEPT !.stack = <<s>>] @@
       [parent |-> SetItem(cleared.parent, s, None),
        visited_cells |-> Append(cleared.visited_cells, s)]

\* Lines 36-44: reset the Grid; seed the stack, the discovered set, the parent
\* map and the visited log with start.
DfsSeed(gr, s) ==
    LET cleared == init_graph(gr)
    IN [NoLocals EXCEPT !.stack = <<s>>, !.visited = {s}] @@
       [parent |-> SetItem(cleared.parent, s, None),
        visited_cells |-> Append(cleared.visited_cells, s)]

depth_first_search(p, k, s, g) ==
    Enter(p, "dfs", k, s, g, DfsSeed(GridFields(k), s))

\* stack[-1] in place of stack.pop(): the top is read and left on the stack.
StackPeek(stk) == [item |-> stk[Len(stk)], rest |-> stk]

\* Line 47, stack.pop(): the last element and what is left.
StackPop(stk) == [item |-> stk[Len(stk)], rest |-> SubSeq(stk, 1, Len(stk) - 1)]

\* Lines 55-62 with `graph.parent[key] = current` left out.
DfsDiscoverNoParent(st, current, key) ==
    WithValue(st, LAMBDA f :
        IF key \in f.visited
        THEN f
        ELSE [f EXCEPT !.visited = @ \cup {key},
                       !.visited_cells = Append(@, key),
                       !.stack = Append(@, key)])

\* Lines 55-62: the body of the neighbor loop for the neighbor key.
DfsDiscover(st, current, key) ==
    WithValue(st, LAMBDA f :
        IF key \in f.visited
        THEN f
        ELSE [f EXCEPT !.visited = @ \cup {key},
                       !.parent = SetItem(@, key, current),
                       !.visited_cells = Append(@, key),
                       !.stack = Append(@, key)])

\* Lines 54-62: the neighbor loop over nbrs.
RECURSIVE DfsExpand(_, _, _)
DfsExpand(st, current, nbrs) ==
    IF nbrs = <<>> THEN st
    ELSE DfsExpand(DfsDiscover(st, current, Head(nbrs)), current, Tail(nbrs))

\* Lines 47-62: one iteration of the loop on frame st.
DfsIter(st, fr, ds, gl) ==
    WithValue(StackPop(st.stack), LAMBDA top :
        LET current == top.item
            popped == [st EXCEPT !.stack = top.rest]
        IN IF current = gl
           THEN ReturnTrace(popped, current)
           ELSE WithValue(find_neighbors(fr, ds, current), LAMBDA nbrs :
                    DfsExpand(popped, current, nbrs)))

DfsLoop(p) ==
    /\ alg[p] = "dfs" /\ stack[p] # <<>>
    /\ \E f \in {Frame(p)} : \E st \in {DfsIter(f, free, dirs, goal[p])} : Iterate(p, st)

\* Lines 46 and 65: the stack is empty, no path was found.
DfsExhausted(p) ==
    /\ alg[p] = "dfs" /\ stack[p] = <<>>
    /\ \E st \in {ReturnEmpty(Frame(p))} : Iterate(p, st)

\* ---------------------------------------------------- breadth_first_search
\* Lines 77-83 without the `graph.init_graph()` of line 75.
BfsSeedNoReset(gr, s) ==
    [NoLocals EXCEPT !.queue = <<s>>, !.visited = {s}] @@
    [parent |-> SetItem(gr.parent, s, None),
     visited_cells |-> Append(gr.visited_cells, s)]

\* Lines 75-83.
BfsSeed(gr, s) ==
    LET cleared == init_graph(gr)
    IN [NoLocals EXCEPT !.queue = <<s>>, !.visited = {s}] @@
       [parent |-> SetItem(cleared.parent, s, None),
        visited_cells |-> Append(cleared.visited_cells, s)]

breadth_first_search(p, k, s, g) ==
    Enter(p, "bfs", k, s, g, BfsSeed(GridFields(k), s))

\* queue.pop() in place of queue.popleft(): the queue served from its tail.
QueuePopRight(q) == [item |-> q[Len(q)], rest |-> SubSeq(q, 1, Len(q) - 1)]

\* Line 86, queue.popleft(): the first element and what is left.
QueuePopLeft(q) == [item |-> Head(q), rest |-> Tail(q)]

\* Lines 94-101 with `visited.add(key)` left out.
BfsDiscoverUnmarked(st, current, key) ==
    WithValue(st, LAMBDA f :
        IF key \in f.visited
        THEN f
        ELSE [f EXCEPT !.parent = SetItem(@, key, current),
                       !.visited_cells = Append(@, key),
                       !.queue = Append(@, key)])

\* Lines 94-101: the body of the neighbor loop for the neighbor key.
BfsDiscover(st, current, key) ==
    WithValue(st, LAMBDA f :
        IF key \in f.visited
        THEN f
        ELSE [f EXCEPT !.visited = @ \cup {key},
                       !.parent = SetItem(@, key, current),
                       !.visited_cells = Append(@, key),
                       !.queue = Append(@, key)])

\* Lines 93-101: the neighbor loop over nbrs.
RECURSIVE BfsExpand(_, _, _)
BfsExpand(st, current, nbrs) ==
    IF nbrs = <<>> THEN st
    ELSE BfsExpand(BfsDiscover(st, current, Head(nbrs)), current, Tail(nbrs))

\* Lines 86-101 with the goal test moved behind the neighbor loop.
BfsIterLateGoalTest(st, fr, ds, gl) ==
    WithValue(QueuePopLeft(st.queue), LAMBDA front :
        LET current == front.item
            popped == [st EXCEPT !.queue = front.rest]
            expanded == BfsExpand(popped, current, find_neighbors(fr, ds, current))
        IN IF current = gl THEN ReturnTrace(expanded, current) ELSE expanded)

\* Lines 86-101: one iteration of the loop on frame st.
BfsIter(st, fr, ds, gl) ==
    WithValue(QueuePopLeft(st.queue), LAMBDA front :
        LET current == front.item
            popped == [st EXCEPT !.queue = front.rest]
        IN IF current = gl
           THEN ReturnTrace(popped, current)
           ELSE WithValue(find_neighbors(fr, ds, current), LAMBDA nbrs :
                    BfsExpand(popped, current, nbrs)))

\* Lines 75-104 as a function: the frame breadth_first_search ends with when it
\* is run from frame st to its return.
RECURSIVE BfsRun(_, _, _, _)
BfsRun(st, fr, ds, gl) ==
    IF st.pc # "loop" THEN st
    ELSE IF st.queue = <<>> THEN ReturnEmpty(st)
    ELSE BfsRun(BfsIter(st, fr, ds, gl), fr, ds, gl)

BfsLoop(p) ==
    /\ alg[p] = "bfs" /\ queue[p] # <<>>
    /\ \E f \in {Frame(p)} : \E st \in {BfsIter(f, free, dirs, goal[p])} : Iterate(p, st)

\* Lines 85 and 104: the queue is empty, no path was found.
BfsExhausted(p) ==
    /\ alg[p] = "bfs" /\ queue[p] = <<>>
    /\ \E st \in {ReturnEmpty(Frame(p))} : Iterate(p, st)

\* ------------------------------------------------------------ a_star_search
Abs(x) == IF x < 0 THEN -x ELSE x

\* The squared Euclidean distance in place of the Manhattan distance.
HeuristicSquared(a, b) ==
    (a[1] - b[1]) * (a[1] - b[1]) + (a[2] - b[2]) * (a[2] - b[2])

\* heuristic(a, b): Manhattan distance.
heuristic(a, b) == Abs(a[1] - b[1]) + Abs(a[2] - b[2])

\* The order of entries pushed as (f, counter, Cell), without g.
HeapLessWithoutG(a, b) ==
    \/ a[1] < b[1]
    \/ a[1] = b[1] /\ a[3] < b[3]

\* The order of entries pushed as (-f, g, counter, Cell): highest f first.
HeapLessNegatedF(a, b) ==
    \/ a[1] > b[1]
    \/ a[1] = b[1] /\ a[2] < b[2]
    \/ a[1] = b[1] /\ a[2] = b[2] /\ a[3] < b[3]

\* Python's tuple order on heap entries (f, g, counter, Cell), as far as the
\* first three components decide it.
HeapLess(a, b) ==
    \/ a[1] < b[1]
    \/ a[1] = b[1] /\ a[2] < b[2]
    \/ a[1] = b[1] /\ a[2] = b[2] /\ a[3] < b[3]

\* heappop(open_heap): the smallest entry.
heappop(h) == CHOOSE e \in h : \A o \in h \ {e} : HeapLess(e, o)

\* Lines 119-139.
AStarSeed(gr, s, g) ==
    LET cleared == init_graph(gr)
    IN [NoLocals EXCEPT !.g_cost = SetItem(EmptyDict, s, 0),
                        !.open_heap = {<<0 + heuristic(s, g), 0, 0, s>>},
                        !.counter = 1,
                        !.closed = {}] @@
       [parent |-> SetItem(cleared.parent, s, None),
        visited_cells |-> cleared.visited_cells]

a_star_search(p, k, s, g) ==
    Enter(p, "astar", k, s, g, AStarSeed(GridFields(k), s, g))

\* Lines 159-171 with `tentative_g <= g_cost[nk]` as the test of line 166.
AStarRelaxOnEqual(st, current, g, gl, nk) ==
    WithValue(st, LAMBDA f :
        LET tentative_g == g + 1
        IN IF nk \in f.closed
           THEN f
           ELSE IF nk \notin DOMAIN f.g_cost \/ tentative_g <= f.g_cost[nk]
           THEN [f EXCEPT !.g_cost = SetItem(@, nk, tentative_g),
                          !.parent = SetItem(@, nk, current),
                          !.open_heap = @ \cup {<<tentative_g + heuristic(nk, gl),
                                                  tentative_g, f.counter, nk>>},
                          !.counter = @ + 1]
           ELSE f)

\* Lines 159-171 without the `counter += 1` of line 171.
AStarRelaxNoCount(st, current, g, gl, nk) ==
    WithValue(st, LAMBDA f :
        LET tentative_g == g + 1
        IN IF nk \in f.closed
           THEN f
           ELSE IF nk \notin DOMAIN f.g_cost \/ tentative_g < f.g_cost[nk]
           THEN [f EXCEPT !.g_cost = SetItem(@, nk, tentative_g),
                          !.parent = SetItem(@, nk, current),
                          !.open_heap = @ \cup {<<tentative_g + heuristic(nk, gl),
                                                  tentative_g, f.counter, nk>>}]
           ELSE f)

\* Lines 159-171: the body of the neighbor loop for the neighbor nk; g is the
\* cost popped with current, gl the goal.
AStarRelax(st, current, g, gl, nk) ==
    WithValue(st, LAMBDA f :
        LET tentative_g == g + 1
        IN IF nk \in f.closed
           THEN f
           ELSE IF nk \notin DOMAIN f.g_cost \/ tentative_g < f.g_cost[nk]
           THEN [f EXCEPT !.g_cost = SetItem(@, nk, tentative_g),
                          !.parent = SetItem(@, nk, current),
                          !.open_heap = @ \cup {<<tentative_g + heuristic(nk, gl),
                                                  tentative_g, f.counter, nk>>},
                          !.counter = @ + 1]
           ELSE f)

\* Lines 158-171: the neighbor loop over nbrs.
RECURSIVE AStarExpand(_, _, _, _, _)
AStarExpand(st, current, g, gl, nbrs) ==
    IF nbrs = <<>> THEN st
    ELSE AStarExpand(AStarRelax(st, current, g, gl, Head(nbrs)),
                     current, g, gl, Tail(nbrs))

\* Lines 142-171 without the `if key in closed: continue` of lines 147-148.
AStarIterNoStaleSkip(st, fr, ds, gl) ==
    WithValue(heappop(st.open_heap), LAMBDA e :
        LET g == e[2]
            key == e[4]
            popped == [st EXCEPT !.open_heap = @ \ {e}]
            marked == [popped EXCEPT !.closed = @ \cup {key},
                                     !.visited_cells = Append(@, key)]
        IN IF key = gl
           THEN ReturnTrace(marked, key)
           ELSE WithValue(find_neighbors(fr, ds, key), LAMBDA nbrs :
                    AStarExpand(marked, key, g, gl, nbrs)))

\* Lines 142-171 with the `graph.visited_cells.append` of line 151 moved behind
\* the goal test.
AStarIterLogAfterGoalTest(st, fr, ds, gl) ==
    WithValue(heappop(st.open_heap), LAMBDA e :
        LET g == e[2]
            key == e[4]
            popped == [st EXCEPT !.open_heap = @ \ {e}]
        IN IF key \in st.closed
           THEN popped
           ELSE LET shut == [popped EXCEPT !.closed = @ \cup {key}]
                    marked == [shut EXCEPT !.visited_cells = Append(@, key)]
                IN IF key = gl
                   THEN ReturnTrace(shut, key)
                   ELSE WithValue(find_neighbors(fr, ds, key), LAMBDA nbrs :
                            AStarExpand(marked, key, g, gl, nbrs)))

\* Lines 142-171: one iteration of the loop on frame st.
AStarIter(st, fr, ds, gl) ==
    WithValue(heappop(st.open_heap), LAMBDA e :
        LET g == e[2]
            key == e[4]
            popped == [st EXCEPT !.open_heap = @ \ {e}]
        IN IF key \in st.closed
           THEN popped
           ELSE LET marked == [popped EXCEPT !.closed = @ \cup {key},
                                             !.visited_cells = Append(@, key)]
                IN IF key = gl
                   THEN ReturnTrace(marked, key)
                   ELSE WithValue(find_neighbors(fr, ds, key), LAMBDA nbrs :
                            AStarExpand(marked, key, g, gl, nbrs)))

AStarLoop(p) ==
    /\ alg[p] = "astar" /\ open_heap[p] # {}
    /\ \E f \in {Frame(p)} : \E st \in {AStarIter(f, free, dirs, goal[p])} : Iterate(p, st)

\* Lines 141 and 174: the heap is empty, no path was found.
AStarExhausted(p) ==
    /\ alg[p] = "astar" /\ open_heap[p] = {}
    /\ \E st \in {ReturnEmpty(Frame(p))} : Iterate(p, st)

\* ------------------------------------------------------------ specification
NoPrev == [kind |-> "none"]

\* Before any call: empty Grids, idle invocations.
InitState ==
    /\ parent = [k \in Grids |-> EmptyDict]
    /\ visited_cells = [k \in Grids |-> <<>>]
    /\ pc = [p \in Procs |-> "idle"]
    /\ alg = [p \in Procs |-> "dfs"]
    /\ graph = [p \in Procs |-> p]
    /\ start = [p \in Procs |-> None]
    /\ goal = [p \in Procs |-> None]
    /\ stack = [p \in Procs |-> <<>>]
    /\ queue = [p \in Procs |-> <<>>]
    /\ visited = [p \in Procs |-> {}]
    /\ open_heap = [p \in Procs |-> {}]
    /\ g_cost = [p \in Procs |-> EmptyDict]
    /\ counter = [p \in Procs |-> 0]
    /\ closed = [p \in Procs |-> {}]
    /\ result = [p \in Procs |-> <<>>]
    /\ prev = NoPrev

\* Every layout of the Rows x Cols box with a free cell.
DenseLayouts == (SUBSET Box(Rows, Cols)) \ {{}}

\* The layouts of the WideRows x WideCols box with at most MaxObstacles obstacles.
SparseLayouts ==
    {Box(WideRows, WideCols) \ obs :
        obs \in {o \in SUBSET Box(WideRows, WideCols) : Cardinality(o) <= MaxObstacles}}

Init ==
    /\ free \in DenseLayouts
    /\ dirs \in NeighborOrders
    /\ InitState

InitWide ==
    /\ free \in SparseLayouts
    /\ dirs \in {Compass4, Compass8}
    /\ InitState

\* The loop of invocation p, up to its return.
Run(p) ==
    \/ DfsLoop(p)
    \/ DfsExhausted(p)
    \/ BfsLoop(p)
    \/ BfsExhausted(p)
    \/ AStarLoop(p)
    \/ AStarExhausted(p)

\* One search on a fresh Grid: any strategy, any free start and goal.
Next ==
    \/ \E s \in free, g \in free :
          pc[1] = "idle" /\ depth_first_search(1, 1, s, g) /\ UNCHANGED prev
    \/ \E s \in free, g \in free :
          pc[1] = "idle" /\ breadth_first_search(1, 1, s, g) /\ UNCHANGED prev
    \/ \E s \in free, g \in free :
          pc[1] = "idle" /\ a_star_search(1, 1, s, g) /\ UNCHANGED prev
    \/ DfsLoop(1)
    \/ DfsExhausted(1)
    \/ BfsLoop(1)
    \/ BfsExhausted(1)
    \/ AStarLoop(1)
    \/ AStarExhausted(1)

Spec == Init /\ [][Next]_vars

\* The same on the sparsely obstructed layouts of the wider box.
SpecWide == InitWide /\ [][Next]_vars

\* History: what the call that p makes now finds on Grid k, left there by the
\* search p ran to its return before.
Remember(p, k) ==
    prev' = IF pc[p] = "done"
            THEN [kind |-> "run", alg |-> alg[p], start |-> start[p], goal |-> goal[p],
                  result |-> result[p], log |-> visited_cells[k],
                  keys |-> DOMAIN parent[k]]
            ELSE NoPrev

InitRerun ==
    /\ free \in (SUBSET Box(RerunRows, RerunCols)) \ {{}}
    /\ dirs \in NeighborOrders
    /\ InitState

\* One caller running two searches on the same Grid, one after the other.
NextRerun ==
    \/ \E s \in free, g \in free :
          prev = NoPrev /\ depth_first_search(1, 1, s, g) /\ Remember(1, 1)
    \/ \E s \in free, g \in free :
          prev = NoPrev /\ breadth_first_search(1, 1, s, g) /\ Remember(1, 1)
    \/ \E s \in free, g \in free :
          prev = NoPrev /\ a_star_search(1, 1, s, g) /\ Remember(1, 1)
    \/ DfsLoop(1)
    \/ DfsExhausted(1)
    \/ BfsLoop(1)
    \/ BfsExhausted(1)
    \/ AStarLoop(1)
    \/ AStarExhausted(1)

SpecRerun == InitRerun /\ [][NextRerun]_vars

\* The layouts of the WideRows x WideCols box with at most MaxFree free cells.
ScarceLayouts ==
    {f \in SUBSET Box(WideRows, WideCols) : f # {} /\ Cardinality(f) <= MaxFree}

InitScarce ==
    /\ free \in ScarceLayouts
    /\ dirs = Compass8
    /\ InitState

\* One a_star_search on a fresh Grid.
NextAStar ==
    \/ \E s \in free, g \in free :
          pc[1] = "idle" /\ a_star_search(1, 1, s, g) /\ UNCHANGED prev
    \/ AStarLoop(1)
    \/ AStarExhausted(1)

\* A* on the 8-connected layouts with few free cells, where entries go stale.
SpecAStar == InitScarce /\ [][NextAStar]_vars

InitPair ==
    /\ free \in (SUBSET Box(PairRows, PairCols)) \ {{}}
    /\ dirs \in {Compass4, Compass8}
    /\ InitState

\* Two invocations whose steps interleave.  The first searches Grid 1; the
\* second is called once the first is in flight, on Grid 1 as well or on a
\* Grid of its own.
NextPair ==
    \/ \E s \in free, g \in free :
          pc[1] = "idle" /\ depth_first_search(1, 1, s, g) /\ UNCHANGED prev
    \/ \E s \in free, g \in free :
          pc[1] = "idle" /\ breadth_first_search(1, 1, s, g) /\ UNCHANGED prev
    \/ \E s \in free, g \in free :
          pc[1] = "idle" /\ a_star_search(1, 1, s, g) /\ UNCHANGED prev
    \/ \E k \in Grids, s \in free, g \in free :
          /\ pc[1] # "idle" /\ pc[2] = "idle"
          /\ depth_first_search(2, k, s, g) /\ UNCHANGED prev
    \/ \E k \in Grids, s \in free, g \in free :
          /\ pc[1] # "idle" /\ pc[2] = "idle"
          /\ breadth_first_search(2, k, s, g) /\ UNCHANGED prev
    \/ \E k \in Grids, s \in free, g \in free :
          /\ pc[1] # "idle" /\ pc[2] = "idle"
          /\ a_star_search(2, k, s, g) /\ UNCHANGED prev
    \/ DfsLoop(1)
    \/ DfsExhausted(1)
    \/ BfsLoop(1)
    \/ BfsExhausted(1)
    \/ AStarLoop(1)
    \/ AStarExhausted(1)
    \/ DfsLoop(2)
    \/ DfsExhausted(2)
    \/ BfsLoop(2)
    \/ BfsExhausted(2)
    \/ AStarLoop(2)
    \/ AStarExhausted(2)

SpecPair == InitPair /\ [][NextPair]_vars

\* ------------------------------------------------- the Grid as a plain graph
\* The cells one edge away from c.
Adjacent(c) == Range(find_neighbors(free, dirs, c))

\* The cells at most n edges away from a cell of S.
RECURSIVE Within(_, _)
Within(S, n) ==
    IF n = 0 THEN S ELSE Within(S \cup UNION {Adjacent(c) : c \in S}, n - 1)

\* The connected component of s.
Reachable(s) == Within({s}, Cardinality(free))

\* The least edge count of a route from s to g, g being reachable from s.
Distance(s, g) ==
    CHOOSE n \in 0..Cardinality(free) :
        g \in Within({s}, n) /\ (n = 0 \/ g \notin Within({s}, n - 1))

FourConnected == Range(dirs) = Range(Compass4)

Returned(p) == pc[p] \in {"done", "error", "hang"}
Entered(p) == pc[p] # "idle"

\* A route of the Grid from s to g: neighbor steps, no cell twice.
IsRoute(path, s, g) ==
    /\ path # <<>>
    /\ path[1] = s
    /\ path[Len(path)] = g
    /\ \A m, n \in 1..Len(path) : m # n => path[m] # path[n]
    /\ \A n \in 2..Len(path) : path[n] \in Adjacent(path[n - 1])

\* ----------------------------------------------------------------- claims
\* C1: on a 4-connected Grid with goal reachable from start, the path
\* breadth_first_search returns has the least edge count of all routes from
\* start to goal.
C1_BfsShortest ==
    (pc[1] = "done" /\ alg[1] = "bfs" /\ FourConnected
        /\ goal[1] \in Reachable(start[1]))
    => Len(result[1]) - 1 = Distance(start[1], goal[1])

\* A breadth-first search returned a route of four edges on the open 3 x 3 box,
\* where longer routes exist.
C1_Witness ==
    /\ pc[1] = "done" /\ alg[1] = "bfs" /\ FourConnected
    /\ free = Box(Rows, Cols)
    /\ Len(result[1]) = 5
    /\ Distance(start[1], goal[1]) = 4

\* C2: on a 4-connected Grid with goal reachable from start, the path
\* a_star_search returns is as long as the one breadth_first_search returns for
\* the same Grid, start and goal.
C2_AStarAsShortAsBfs ==
    (pc[1] = "done" /\ alg[1] = "astar" /\ FourConnected
        /\ goal[1] \in Reachable(start[1]))
    => LET bfs == BfsRun(BfsSeed(GridFields(1), start[1])
                            @@ [pc |-> "loop", result |-> <<>>],
                         free, dirs, goal[1])
       IN Len(result[1]) = Len(bfs.result)

\* An A* search returned a route of at least three edges around an obstacle,
\* having logged other cells than breadth-first search logs.
C2_Witness ==
    /\ pc[1] = "done" /\ alg[1] = "astar" /\ FourConnected
    /\ free # Box(Rows, Cols)
    /\ Len(result[1]) >= 4
    /\ LET bfs == BfsRun(BfsSeed(GridFields(1), start[1])
                            @@ [pc |-> "loop", result |-> <<>>],
                         free, dirs, goal[1])
       IN /\ Len(bfs.result) = Len(result[1])
          /\ bfs.visited_cells # visited_cells[1]

\* C3: with start and goal in different connected components, each strategy
\* returns the empty path and raises nothing.
C3_UnreachableGivesEmpty ==
    (Returned(1) /\ goal[1] \notin Reachable(start[1]))
    => (pc[1] = "done" /\ result[1] = <<>>)

\* A search over a component of at least three cells returned without
\* having found the goal, which lies in another component.
C3_Witness ==
    /\ pc[1] = "done" /\ result[1] = <<>>
    /\ goal[1] \notin Reachable(start[1])
    /\ Cardinality(Reachable(start[1])) >= 3
    /\ Reachable(start[1]) \subseteq DOMAIN parent[1]

\* C4: with goal reachable from start, each strategy returns a non-empty path
\* from start to goal in which no cell repeats and every cell is a neighbor of
\* the cell before it.
C4_ReturnsRoute ==
    (Returned(1) /\ goal[1] \in Reachable(start[1]))
    => (pc[1] = "done" /\ IsRoute(result[1], start[1], goal[1]))

\* A depth-first search returned a route longer than the shortest one.
C4_Witness ==
    /\ pc[1] = "done" /\ alg[1] = "dfs"
    /\ IsRoute(result[1], start[1], goal[1])
    /\ Len(result[1]) - 1 > Distance(start[1], goal[1])

\* C5: with start equal to goal, each strategy returns the one-element path
\* [start] and expands no neighbor: nothing but start is ever discovered.
C5_TrivialPath ==
    (Entered(1) /\ start[1] = goal[1])
    => /\ DOMAIN parent[1] = {start[1]}
       /\ Range(visited_cells[1]) \subseteq {start[1]}
       /\ Returned(1) => (pc[1] = "done" /\ result[1] = <<start[1]>>)

\* A search with start equal to goal returned, start having free neighbors.
C5_Witness ==
    /\ pc[1] = "done" /\ start[1] = goal[1]
    /\ result[1] = <<start[1]>>
    /\ Cardinality(Adjacent(start[1])) >= 2

\* The cells the running search has discovered, by its own fresh locals.
Discovered(p) == IF alg[p] = "astar" THEN DOMAIN g_cost[p] ELSE visited[p]

\* The cells the running search has logged by now, by its own fresh locals.
Marked(p) == IF alg[p] = "astar" THEN closed[p] ELSE visited[p]

\* C6: in the second of two consecutive searches on one Grid, with another
\* start or goal than the first, the Grid holds what this search wrote and
\* nothing else: the parent map has an entry for exactly the cells this search
\* discovered, and the visited log lists exactly the cells this search logged,
\* each once.
C6_NoResidue ==
    (prev.kind = "run" /\ Entered(1)
        /\ (prev.start # start[1] \/ prev.goal # goal[1]))
    => /\ DOMAIN parent[1] = Discovered(1)
       /\ Range(visited_cells[1]) = Marked(1)
       /\ Len(visited_cells[1]) = Cardinality(Marked(1))

\* The second search returned, and a cell the first search had given a parent
\* entry and logged has neither in the Grid now.
C6_Witness ==
    /\ prev.kind = "run" /\ pc[1] = "done"
    /\ (prev.start # start[1] \/ prev.goal # goal[1])
    /\ \E c \in prev.keys :
          /\ c \in Range(prev.log)
          /\ c \notin DOMAIN parent[1]
          /\ c \notin Range(visited_cells[1])

\* C7: a strategy run again on the same Grid with the same start and goal
\* returns the same path and leaves the same visited log, cell for cell.
C7_Deterministic ==
    (prev.kind = "run" /\ Returned(1) /\ prev.alg = alg[1]
        /\ prev.start = start[1] /\ prev.goal = goal[1])
    => /\ pc[1] = "done"
       /\ result[1] = prev.result
       /\ visited_cells[1] = prev.log

\* A strategy returned for the second time the route of three cells or more
\* it had returned before, with a log of four cells or more.
C7_Witness ==
    /\ prev.kind = "run" /\ pc[1] = "done" /\ prev.alg = alg[1]
    /\ prev.start = start[1] /\ prev.goal = goal[1]
    /\ Len(result[1]) >= 3 /\ result[1] = prev.result
    /\ Len(visited_cells[1]) >= 4

\* The entries an A* step takes out of the frontier.
Popped == open_heap[1] \ open_heap'[1]

\* C8 as claimed: every pop returns an entry of lowest f, and of the entries
\* with that f the one pushed first (lowest insertion counter).
C8_PopLowestFThenCounter ==
    [][\A e \in Popped : \A o \in open_heap[1] \ {e} :
          o[1] > e[1] \/ (o[1] = e[1] /\ o[3] > e[3])]_vars

\* C8 amended: every pop takes exactly one entry out of the frontier, of lowest
\* f; of the entries with that f one of lowest g; and of the entries with that
\* f and g the one pushed first.  An entry's f is its g plus the heuristic.
C8_PopLowestFThenGThenCounter ==
    [][/\ (alg[1] = "astar" /\ pc[1] = "loop" /\ open_heap[1] # {})
            => Cardinality(Popped) = 1
       /\ \A e \in Popped :
            /\ e[1] = e[2] + heuristic(e[4], goal[1])
            /\ \A o \in open_heap[1] \ {e} :
                  \/ o[1] > e[1]
                  \/ o[1] = e[1] /\ o[2] > e[2]
                  \/ o[1] = e[1] /\ o[2] = e[2] /\ o[3] > e[3]]_vars

\* The frontier holds the entry to pop next and, with the same f, an entry
\* pushed earlier whose g is higher.
C8_Witness ==
    /\ alg[1] = "astar" /\ pc[1] = "loop" /\ open_heap[1] # {}
    /\ \E o \in open_heap[1] :
          LET e == heappop(open_heap[1])
          IN o[1] = e[1] /\ o[3] < e[3] /\ o[2] > e[2]

\* Walking par from c ends at s, whose entry is None, and meets no cell twice.
RECURSIVE Climbs(_, _, _, _)
Climbs(c, par, s, seen) ==
    IF c \in seen \/ c \notin DOMAIN par THEN FALSE
    ELSE IF par[c] = None THEN c = s
    ELSE Climbs(par[c], par, s, seen \cup {c})

\* C9: at every point of a search the parent map is a tree rooted at start:
\* start's entry is None, and the parent links of every cell with an entry lead
\* to start without meeting a cell twice.
C9_ParentTree ==
    Entered(1)
    => /\ start[1] \in DOMAIN parent[1]
       /\ parent[1][start[1]] = None
       /\ \A c \in DOMAIN parent[1] : Climbs(c, parent[1], start[1], {})

\* An A* search has rewritten a parent entry: the frontier holds two entries
\* for one cell, and that cell's chain is at least two links long.
C9_Witness ==
    /\ alg[1] = "astar" /\ pc[1] = "loop"
    /\ \E a \in open_heap[1], b \in open_heap[1] :
          /\ a[4] = b[4] /\ a[3] < b[3]
          /\ parent[1][parent[1][a[4]]] # None

\* The frontier of the strategy p runs is empty.
Exhausted(p) ==
    CASE alg[p] = "dfs" -> stack[p] = <<>>
      [] alg[p] = "bfs" -> queue[p] = <<>>
      [] OTHER -> open_heap[p] = {}

\* The loop runs on until it returns: the searches do not wait for anything.
SpecFair == Spec /\ WF_vars(Run(1))

\* C10: every search returns: a path ending at the goal, or the empty path
\* with its frontier exhausted.
C10_Terminates ==
    (pc[1] = "loop")
    ~> (pc[1] = "done"
        /\ \/ result[1] # <<>> /\ result[1][Len(result[1])] = goal[1]
           \/ result[1] = <<>> /\ Exhausted(1))

\* A search returned after it had logged six cells or more.
C10_Witness ==
    /\ pc[1] = "done"
    /\ Len(visited_cells[1]) >= 6

\* Invocation p returned what a search of its own start and goal must return:
\* a route from start to goal, or the empty path when there is none.
SoundReturn(p) ==
    /\ pc[p] = "done"
    /\ IF goal[p] \in Reachable(start[p])
       THEN IsRoute(result[p], start[p], goal[p])
       ELSE result[p] = <<>>

\* The two invocations were given the same Grid instance.
SharedGrid == Entered(1) /\ Entered(2) /\ graph[1] = graph[2]

\* C11: when the steps of two invocations interleave, a search ends on a goal
\* without parent entry, on a parent chain that never ends, or with a path that
\* is no route from its start to its goal, only if both were given the same
\* Grid; with a Grid each, every search returns soundly.
C11_UnsoundOnlyWhenShared ==
    \A p \in Procs : (Returned(p) /\ ~SoundReturn(p)) => SharedGrid

\* On a shared Grid the first search popped its goal after the second had reset
\* the Grid, and found no parent entry for it.
C11_Witness ==
    /\ SharedGrid
    /\ pc[1] = "error"
    /\ goal[1] \notin DOMAIN parent[graph[1]]
    /\ start[2] \in DOMAIN parent[graph[1]]

\* C12: within a run, depth_first_search and breadth_first_search never change
\* or remove a parent entry once written; a_star_search changes a cell's parent
\* entry only in a step that strictly lowers the cell's recorded g-cost, and
\* no step raises or removes a recorded g-cost.
C12_ParentWrittenOnce ==
    [][pc[1] = "loop"
         => /\ \A c \in DOMAIN parent[1] :
                 /\ c \in DOMAIN parent'[1]
                 /\ parent'[1][c] # parent[1][c]
                      => /\ alg[1] = "astar"
                         /\ c \in DOMAIN g_cost[1]
                         /\ g_cost'[1][c] < g_cost[1][c]
            /\ \A c \in DOMAIN g_cost[1] :
                 /\ c \in DOMAIN g_cost'[1]
                 /\ g_cost'[1][c] <= g_cost[1][c]]_vars

\* An A* search holds, for one cell, the entry pushed when the cell was first
\* reached and a cheaper entry pushed when its parent was rewritten; the
\* recorded cost is the cheaper one and the recorded parent is a closed cell.
C12_Witness ==
    /\ alg[1] = "astar" /\ pc[1] = "loop"
    /\ \E a \in open_heap[1], b \in open_heap[1] :
          /\ a[4] = b[4] /\ a[3] < b[3] /\ b[2] < a[2]
          /\ g_cost[1][b[4]] = b[2]
          /\ parent[1][b[4]] \in closed[1]

\* The cells in the frontier of invocation p.
FrontierCells(p) ==
    CASE alg[p] = "dfs" -> Range(stack[p])
      [] alg[p] = "bfs" -> Range(queue[p])
      [] OTHER -> {e[4] : e \in open_heap[p]}

\* C13: every cell in the frontier has a parent entry and no step of a run
\* removes an entry, so that every cell that ever was in the frontier has one;
\* the cell a search reconstructs its path from has a parent chain that ends at
\* start, and the reconstruction neither fails nor runs on for ever.
C13_FrontierHasParent ==
    [][/\ FrontierCells(1)' \subseteq DOMAIN parent'[1]
       /\ pc[1] = "loop" => DOMAIN parent[1] \subseteq DOMAIN parent'[1]
       /\ pc'[1] \notin {"error", "hang"}
       /\ (pc[1] = "loop" /\ pc'[1] = "done" /\ result'[1] # <<>>)
            => /\ goal[1] \in FrontierCells(1)
               /\ Climbs(goal[1], parent[1], start[1], {})]_vars

\* A search reconstructed a path of three cells or more from its goal, while
\* other cells are still in its frontier.
C13_Witness ==
    /\ pc[1] = "done" /\ Len(result[1]) >= 3
    /\ FrontierCells(1) # {}
    /\ goal[1] \notin FrontierCells(1)
    /\ goal[1] \in DOMAIN parent[1]

\* No element occurs twice in the sequence s.
NoRepeat(s) == \A m, n \in 1..Len(s) : m # n => s[m] # s[n]

\* The frontier of a depth-first or breadth-first search, as a sequence.
Frontier(p) == IF alg[p] = "dfs" THEN stack[p] ELSE queue[p]

\* The cells a depth-first or breadth-first step pushes: what its frontier
\* holds beyond what the pop left.
Pushed(p) ==
    SubSeq(Frontier(p)', Len(Frontier(p)), Len(Frontier(p)'))

\* C14: in depth_first_search and breadth_first_search the discovered set, the
\* key set of the parent map and the set of logged cells are equal after
\* every step, and no cell is twice in the log or in the frontier; the cells a
\* step pushes were not discovered before, are marked discovered by the step
\* and are appended to the log in the order pushed.
C14_DiscoveredOnce ==
    [][alg'[1] \in {"dfs", "bfs"} /\ pc'[1] # "idle"
         => /\ visited'[1] = DOMAIN parent'[1]
            /\ visited'[1] = Range(visited_cells'[1])
            /\ NoRepeat(visited_cells'[1])
            /\ NoRepeat(Frontier(1)')
            /\ Range(Frontier(1)') \subseteq visited'[1]
            /\ (pc[1] = "loop" /\ pc'[1] = "loop")
                 => /\ Range(Pushed(1)) \cap visited[1] = {}
                    /\ visited'[1] = visited[1] \cup Range(Pushed(1))
                    /\ visited_cells'[1] = visited_cells[1] \o Pushed(1)]_vars

\* A breadth-first search has discovered six cells or more, and a cell in its
\* frontier has two discovered neighbors or more.
C14_Witness ==
    /\ alg[1] = "bfs" /\ pc[1] = "loop"
    /\ Cardinality(visited[1]) >= 6
    /\ \E c \in Range(queue[1]) : Cardinality(Adjacent(c) \cap visited[1]) >= 2

\* The number of stale entries the A* search has popped and discarded: the
\* entries pushed, less those still in the frontier and those popped to close
\* a cell.
StalePops == counter[1] - Cardinality(open_heap[1]) - Cardinality(closed[1])

\* C15: an a_star_search step that pops an entry whose cell is already closed
\* takes that entry out of the frontier and changes nothing else: the g-cost
\* map, the parent map, the visited log, the closed set and the insertion
\* counter stay as they are, and the search goes on.
C15_StalePopSkips ==
    [][(alg[1] = "astar" /\ pc[1] = "loop")
         => \A e \in Popped :
               e[4] \in closed[1]
               => /\ open_heap'[1] = open_heap[1] \ {e}
                  /\ g_cost'[1] = g_cost[1]
                  /\ parent'[1] = parent[1]
                  /\ visited_cells'[1] = visited_cells[1]
                  /\ closed'[1] = closed[1]
                  /\ counter'[1] = counter[1]
                  /\ pc'[1] = "loop"]_vars

\* An A* search has popped and discarded a stale entry, and runs on.
C15_Witness ==
    /\ alg[1] = "astar" /\ pc[1] = "loop"
    /\ StalePops >= 1

\* C16: in a_star_search the visited log lists the closed cells, each once, in
\* the order they were closed: a step either leaves the log and the closed set
\* as they are or appends one cell, not closed before, to the log and adds
\* that cell to the closed set; when a path is returned the goal is the last
\* cell of the log.
C16_LogIsClosedOrder ==
    [][(alg'[1] = "astar" /\ pc'[1] # "idle")
         => /\ Range(visited_cells'[1]) = closed'[1]
            /\ NoRepeat(visited_cells'[1])
            /\ pc[1] = "loop"
                 => \/ /\ visited_cells'[1] = visited_cells[1]
                       /\ closed'[1] = closed[1]
                    \/ \E c \in closed'[1] \ closed[1] :
                          /\ visited_cells'[1] = Append(visited_cells[1], c)
                          /\ closed'[1] = closed[1] \cup {c}
            /\ (pc'[1] = "done" /\ result'[1] # <<>>)
                 => visited_cells'[1][Len(visited_cells'[1])] = goal[1]]_vars

\* An A* search returned a path, having closed and logged cells that are not
\* on it; its log ends with the goal.
C16_Witness ==
    /\ alg[1] = "astar" /\ pc[1] = "done" /\ result[1] # <<>>
    /\ Len(visited_cells[1]) > Len(result[1])
    /\ Len(result[1]) >= 3
    /\ visited_cells[1][Len(visited_cells[1])] = goal[1]

\* C17: when a_star_search expands a popped entry (its cell is not closed),
\* the g of the entry is the g-cost recorded for the cell, and every entry the
\* step pushes carries that recorded g-cost plus 1.
C17_PoppedGIsRecordedG ==
    [][(alg[1] = "astar" /\ pc[1] = "loop")
         => \A e \in Popped :
               e[4] \notin closed[1]
               => /\ e[4] \in DOMAIN g_cost[1]
                  /\ e[2] = g_cost[1][e[4]]
                  /\ \A n \in open_heap'[1] \ open_heap[1] :
                        n[2] = g_cost[1][e[4]] + 1]_vars

\* An A* search run holds an entry whose g is above the g-cost recorded for
\* its cell, and has expanded the cell from the cheaper entry.
C17_Witness ==
    /\ alg[1] = "astar" /\ pc[1] = "loop"
    /\ \E e \in open_heap[1] :
          /\ e[4] \in closed[1]
          /\ e[2] > g_cost[1][e[4]]
          /\ \E c \in DOMAIN parent[1] : parent[1][c] = e[4]

\* C19: the entries of the A* frontier carry pairwise distinct insertion
\* counters, all below the counter's value, so that two entries always differ
\* in (f, g, counter) and their comparison never reaches the Cell; each push
\* of a step takes a counter value of its own.
C19_DistinctCounters ==
    [][(alg'[1] = "astar" /\ pc'[1] # "idle")
         => /\ \A a \in open_heap'[1] :
                 /\ a[3] < counter'[1]
                 /\ \A b \in open_heap'[1] \ {a} :
                       /\ a[3] # b[3]
                       /\ <<a[1], a[2], a[3]>> # <<b[1], b[2], b[3]>>
            /\ pc[1] = "loop"
                 => /\ Cardinality(open_heap'[1] \ open_heap[1])
                         = counter'[1] - counter[1]
                    /\ \A n \in open_heap'[1] \ open_heap[1] :
                          n[3] >= counter[1]]_vars

\* The A* frontier holds two entries equal in f and g, which their counters
\* alone tell apart.
C19_Witness ==
    /\ alg[1] = "astar" /\ pc[1] = "loop"
    /\ \E a \in open_heap[1], b \in open_heap[1] :
          a[1] = b[1] /\ a[2] = b[2] /\ a[3] < b[3]

\* C18: on a 4-connected Grid the heuristic a_star_search applies is
\* admissible and consistent: for every free cell a and the goal of the
\* search, heuristic(a, goal) is at most the least edge count from a to goal
\* when goal is reachable from a, heuristic(goal, goal) is 0, and
\* heuristic(a, goal) <= 1 + heuristic(b, goal) for every neighbor b of a.
\* Every f the search pushes is the pushed g plus that heuristic.
C18_ManhattanAdmissible ==
    (alg[1] = "astar" /\ pc[1] = "loop" /\ FourConnected)
    => /\ heuristic(goal[1], goal[1]) = 0
       /\ \A e \in open_heap[1] : e[1] = e[2] + heuristic(e[4], goal[1])
       /\ \A a \in free :
             /\ heuristic(a, goal[1]) >= 0
             /\ goal[1] \in Reachable(a)
                  => heuristic(a, goal[1]) <= Distance(a, goal[1])
             /\ \A b \in Adjacent(a) :
                   heuristic(a, goal[1]) <= 1 + heuristic(b, goal[1])

\* An A* search on a 4-connected Grid has pushed an entry for a cell whose
\* heuristic is positive and, the way being obstructed, below its distance
\* from the goal.
C18_Witness ==
    /\ alg[1] = "astar" /\ pc[1] = "loop" /\ FourConnected
    /\ \E e \in open_heap[1] :
          /\ e[2] >= 1
          /\ goal[1] \in Reachable(e[4])
          /\ heuristic(e[4], goal[1]) >= 1
          /\ e[1] - e[2] < Distance(e[4], goal[1])

\* C20: on a 4-connected Grid, the g-cost a_star_search has recorded for a
\* cell at the step that closes it is the least edge count from start to the
\* cell, and no later step changes the g-cost or the parent entry of a closed
\* cell or takes a cell out of the closed set.
C20_ClosedIsFinal ==
    [][(alg[1] = "astar" /\ pc[1] = "loop" /\ FourConnected)
         => /\ \A c \in closed'[1] \ closed[1] :
                 /\ c \in DOMAIN g_cost[1]
                 /\ g_cost[1][c] = Distance(start[1], c)
                 /\ g_cost'[1][c] = g_cost[1][c]
            /\ \A c \in closed[1] :
                 /\ c \in closed'[1]
                 /\ g_cost'[1][c] = g_cost[1][c]
                 /\ parent'[1][c] = parent[1][c]]_vars

\* An A* search on an obstructed 4-connected Grid has closed a cell four edges
\* or more from start, which has neighbors that are not closed.
C20_Witness ==
    /\ alg[1] = "astar" /\ pc[1] = "loop" /\ FourConnected
    /\ free # Box(WideRows, WideCols)
    /\ \E c \in closed[1] :
          /\ g_cost[1][c] >= 4
          /\ g_cost[1][c] = Distance(start[1], c)
          /\ Adjacent(c) \ closed[1] # {}

====
